---- MODULE Spec2Model ----
(***************************************************************************)
(* Model of the kode_orch orchestration core:                              *)
(*   - BgTaskRunner  (src/kode_orch/src/orchestrator/bg-task-runner.ts)    *)
(*   - ChatLock      (src/unnamed/part_002)                                *)
(*   - InjectionQueue.processNext (src/unnamed/part_007)                   *)
(*   - handleChat    (src/kode_orch/src/server/routes.ts)                  *)
(*   - bg_task_retry, bg_task_redo (src/kode_orch/src/tools/bg-task-run.ts)*)
(*   - ApprovalManager (src/unnamed/part_008)                              *)
(*                                                                         *)
(* JavaScript runs each handler to its next `await` without preemption, so *)
(* one action is one synchronous stretch of code: from a call or a promise *)
(* resolution to the next await on an external collaborator (sandbox       *)
(* factory, Agent.create, Agent.complete, sandbox.dispose, chatStream).    *)
(* `await import('./injection-queue.js')` resolves an already loaded       *)
(* module and is not a point where a timer or a request can interleave;    *)
(* it is folded into the stretch it belongs to.                            *)
(***************************************************************************)
EXTENDS Integers, Sequences, FiniteSets, TLC

\* ------------------------------------------------------------- bounds
MaxTasks == 2            \* start() calls explored by Spec
MaxQueueTasks == 3       \* start() calls explored by SpecQueue
MaxConcurrentCfg == 2    \* taskConfig.maxConcurrent ranges over 1..MaxConcurrentCfg
MaxChats == 1            \* chat re-entries explored (all tasks together)
MaxEvents == 1           \* tool_executed/step_complete events explored (all tasks together)
MaxToolCalls == 1        \* resourceLimits.maxToolCalls of every task
MaxSteps == 1            \* resourceLimits.maxSteps of every task
MaxUsers == 3            \* handleChat requests explored by SpecLock
MaxItems == 3            \* InjectionQueue.enqueue calls explored by SpecLock
MaxStream == 2           \* SSE events explored per injection (orchestrator_start included)
MaxChatTasks == 1        \* start() calls explored by SpecChat
MaxOverlap == 2          \* chat re-entries explored by SpecChat
MaxDisposeOverlap == 2   \* disposeSandbox calls of a task in flight together
MaxBacklog == 1          \* items waiting in InjectionQueue.queue in SpecLockLive
MaxMarkers == 2          \* [sandbox-preview](URL) markers in a result text
MaxRetryTasks == 3       \* start() calls explored by SpecRetry
MaxRunCalls == 1         \* of which made by bg_task_run
MaxApprovals == 2        \* approvals added to the ApprovalManager
MaxRespondCalls == 3     \* respond() calls explored per approval
MaxConns == 2            \* SSE connections opened
MaxSends == 3            \* SSEManager.send calls explored by SpecSse

MaxOf(S) == CHOOSE m \in S : \A x \in S : x <= m

Tasks == 1..MaxOf({MaxTasks, MaxQueueTasks, MaxRetryTasks})

Users == 1..MaxUsers     \* handleChat requests
Injector == 0            \* InjectionQueue.processNext
Procs == Users \cup {Injector}

Priorities == {"high", "normal", "low"}
PRIORITY_ORDER == [high |-> 0, normal |-> 1, low |-> 2]

Terminal == {"completed", "failed", "cancelled"}

\* A result text, as far as line 248 reads it: the URLs of its [sandbox-preview](URL)
\* markers in order of appearance, each URL either containing 'localhost' or not.
UrlKinds == {"localhost", "remote"}
Texts == UNION {[1..n -> UrlKinds] : n \in 0..MaxMarkers}
\* the texts without a localhost marker
PlainTexts == {<<>>, <<"remote">>}

VARIABLES
  maxConcurrent,    \* BgTaskRunner.maxConcurrent
  status,           \* task.status, "none" before start() created the task
  priority,         \* task.priority
  pendingQueue,     \* BgTaskRunner.pendingQueue (task ids)
  pc,               \* position of the task's runInBackground/runWithSandbox
  agents,           \* keys of BgTaskRunner.agents
  agentAlive,       \* task.agentAlive
  pendingMessages,  \* keys of BgTaskRunner.pendingMessages
  interruptPending, \* agent.interrupt() requested while a complete() call is awaited, and
                    \* that call has not returned yet
  idleTimers,       \* tasks whose idle timer is armed (set and neither cleared nor fired)
  toolCalls,        \* task.resourceUsage.toolCalls
  steps,            \* task.resourceUsage.steps
  sandboxUrl,       \* task.sandboxUrl is set
  chats,            \* in-flight runChatInBackground calls, by their previousStatus
  agentTimerLive,   \* the timer held in agentDisposeTimers is armed
  agentTimerOrphans,\* armed agent-dispose timers no longer held in the map
  inj,              \* per task: types of the items passed to injectionQueue.enqueue
  nTerm,            \* per task: transitions into completed/failed/cancelled made by a
                    \* run, a watchdog or cancel (history)
  nChat,            \* per task: chat re-entries started (history)
  ret,              \* value returned by the last cancel/sendMessage/chatAsync call
                    \* (chatAsync: its ok field)
  error             \* task.error: "none" (unset), "thrown" (String(err) of a caught
                    \* exception) or "watchdog" (idle-timeout or resource-limit text)

VARIABLES
  taskFields,       \* per task: prompt, skills, retryCount, redoHistory and
                    \* resourceLimits.maxToolCalls of the record start() built
  lastCall          \* the last bg_task_retry/bg_task_redo call: its arguments and result

toolVars == <<taskFields, lastCall>>

VARIABLES
  pending,          \* keys of ApprovalManager.pending
  added,            \* the permission ids passed to add() so far (history)
  respondCalls,     \* per approval: calls of its respond callback (history)
  deciding,         \* per approval: decide() calls awaiting respond()
  decideRet         \* per approval: values the decide() calls on it returned (history)

approvalVars == <<pending, added, respondCalls, deciding, decideRet>>

Approvals == 1..MaxApprovals

VARIABLES
  config,           \* config.sandbox as loadConfig left it: kind, and whether e2b.apiKey
                    \* is set; kind "unloaded" before loadConfig
  permReq,          \* per permission id: the call of the permission_required event
  autoNotes,        \* per permission id: the notes of the respond('allow') calls the
                    \* bridge made (history)
  approvalNeeded    \* per permission id: approval_needed events broadcast (history)

bridgeVars == <<config, permReq, autoNotes, approvalNeeded>>

VARIABLES
  connections,      \* SSEManager.connections
  destroyed,        \* the connections whose destroyed flag is set
  closePending,     \* the connections whose 'close' event is emitted and not yet handled
  written,          \* per connection: the numbers of the events written to it, in order
  nSent,            \* SSEManager.send calls made so far
  addedAt           \* per connection: nSent when addConnection registered it, -1 before

connVars == <<connections, destroyed, closePending, written, nSent, addedAt>>

Conns == 1..MaxConns

serverVars == <<bridgeVars, connVars>>

\* A shell command as isSafeCommand reads it: extractCommand found a command string, a
\* DANGEROUS_PATTERNS entry matches it, a SAFE_COMMAND_PREFIXES entry starts it.
Commands == {c \in [extracted : BOOLEAN, dangerous : BOOLEAN, prefix : BOOLEAN] :
               ~c.extracted => (~c.dangerous /\ ~c.prefix)}
NoCommand == [extracted |-> FALSE, dangerous |-> FALSE, prefix |-> FALSE]
ToolNames == {"bash_run", "fs_write"}
NoRequest == [name |-> "none", inputPreview |-> NoCommand]
SandboxKinds == {"local", "e2b", "docker"}

VARIABLES
  sandboxes,        \* BgTaskRunner.sandboxes: tasks whose sandbox is kept for its preview
  sbTimerLive,      \* per task: the timer held in disposeTimers is armed
  disposeCalls,     \* per task: dispose() calls made on the task's sandbox (history)
  dsPending,        \* per task: disposeSandbox calls awaiting sandbox.dispose()
  resultText,       \* per task: result.text of the run, as matched at line 248
  resultStatus      \* per task: result.status of the last complete() call of the run

sbVars == <<sandboxes, sbTimerLive, disposeCalls, dsPending, resultText, resultStatus>>

VARIABLES
  locked,           \* ChatLock.locked
  waiters,          \* ChatLock.waiters: the parked callers, in push order
  lpc,              \* per caller of the lock: idle, parked, woken, holding, done
  injQueue,         \* InjectionQueue.queue (item ids)
  processing,       \* InjectionQueue.processing
  injItem,          \* the item processNext has shifted and not finished, 0 if none
  nEnq,             \* InjectionQueue.enqueue calls made so far
  sse,              \* the SSE events injectAndStream sent, in order, each with the id of
                    \* its item and its type (history)
  injFailed         \* the items whose injectAndStream call threw (history)

lockVars == <<locked, waiters, lpc, injQueue, processing, injItem, nEnq, sse, injFailed>>

\* the runner's state apart from the sandbox registry, the tool-call record and the
\* last return value
runnerCore == <<maxConcurrent, status, priority, pendingQueue, pc, agents, agentAlive,
                pendingMessages, interruptPending, idleTimers, toolCalls, steps,
                sandboxUrl, chats, agentTimerLive, agentTimerOrphans, inj, nTerm,
                nChat, error>>

runnerVars == <<runnerCore, ret, sbVars, toolVars, approvalVars, serverVars>>

vars == <<runnerVars, lockVars>>

\* ------------------------------------------------------------- helpers

\* BgTaskRunner.runningCount over a given status map
runningCountOf(st) == Cardinality({t \in Tasks : st[t] = "running"})

runningCount == runningCountOf(status)

\* a queue left in push order
sortByPriorityNoSort(q, prio) == q

\* Array.prototype.sort with the PRIORITY_ORDER comparator: a stable sort on three keys
sortByPriority(q, prio) ==
  SelectSeq(q, LAMBDA t : PRIORITY_ORDER[prio[t]] = 0)
    \o SelectSeq(q, LAMBDA t : PRIORITY_ORDER[prio[t]] = 1)
    \o SelectSeq(q, LAMBDA t : PRIORITY_ORDER[prio[t]] = 2)

\* BgTaskRunner.drainQueue: the while loop, on a status map and a queue
RECURSIVE drainQueue(_, _, _)
drainQueue(st, q, cap) ==
  IF runningCountOf(st) < cap /\ Len(q) > 0
  THEN drainQueue([st EXCEPT ![Head(q)] = "running"], Tail(q), cap)
  ELSE [status |-> st, pendingQueue |-> q]

\* the runInBackground calls a drain makes: each dispatched task is left awaiting
\* sandboxFactory.create()
dispatchPc(p, stBefore, stAfter) ==
  [t \in Tasks |-> IF stBefore[t] = "queued" /\ stAfter[t] = "running" THEN "sandbox" ELSE p[t]]

\* String.prototype.match without the g flag: the first marker of the text, "null" if none
urlMatch(text) == IF text = <<>> THEN "null" ELSE text[1]

\* a marker of any URL sets task.sandboxUrl
setsSandboxUrlAnyMarker(text) == urlMatch(text) # "null"

\* line 249: urlMatch && !urlMatch[1].includes('localhost')
setsSandboxUrl(text) == urlMatch(text) # "null" /\ urlMatch(text) # "localhost"

\* the catch block overwrites a status already settled
catchFailsAlways(s) == TRUE

\* the guard of the catch block of runWithSandbox (line 256)
catchFails(s) == s \notin {"cancelled", "failed"}

\* An optional value is the empty set (undefined) or the singleton of the value.
Undefined == {}
Some(v) == {v}

\* a ?? b
orElse(a, b) == IF a = Undefined THEN b ELSE CHOOSE v \in a : TRUE

\* the opts argument of start() with every option left out
NoOpts == [priority |-> Undefined, limits |-> Undefined, skills |-> Undefined,
           retryCount |-> Undefined, redoHistory |-> Undefined]

\* no record in BgTaskRunner.tasks
NoTask == [prompt |-> <<>>, skills |-> <<>>, retryCount |-> 0, redoHistory |-> <<>>,
           maxToolCalls |-> 0]

NoCall == [tool |-> "none", taskId |-> 0, arg |-> Undefined, ok |-> FALSE, newTaskId |-> 0]

\* metadata.type of the injection built at the end of runWithSandbox
injectionType(s) ==
  IF s = "completed" THEN "task_result"
  ELSE IF s = "cancelled" THEN "task_cancelled"
  ELSE "task_failed"

NextId == Cardinality({t \in Tasks : status[t] # "none"}) + 1

chatsInFlight(t) == chats[t]["completed"] + chats[t]["running"] + chats[t]["cancelled"]

ChatPrev == {"completed", "running", "cancelled"}

RECURSIVE sumOver(_, _)
sumOver(f, S) == IF S = {} THEN 0 ELSE LET x == CHOOSE y \in S : TRUE IN f[x] + sumOver(f, S \ {x})

totalChats == sumOver(nChat, Tasks)
totalEvents == sumOver(toolCalls, Tasks) + sumOver(steps, Tasks)

\* ------------------------------------------------------------- Init

Init ==
  /\ maxConcurrent \in 1..MaxConcurrentCfg
  /\ status = [t \in Tasks |-> "none"]
  /\ priority = [t \in Tasks |-> "normal"]
  /\ pendingQueue = <<>>
  /\ pc = [t \in Tasks |-> "idle"]
  /\ agents = {}
  /\ agentAlive = [t \in Tasks |-> FALSE]
  /\ pendingMessages = {}
  /\ interruptPending = [t \in Tasks |-> FALSE]
  /\ idleTimers = {}
  /\ toolCalls = [t \in Tasks |-> 0]
  /\ steps = [t \in Tasks |-> 0]
  /\ sandboxUrl = [t \in Tasks |-> FALSE]
  /\ chats = [t \in Tasks |-> [s \in ChatPrev |-> 0]]
  /\ agentTimerLive = [t \in Tasks |-> FALSE]
  /\ agentTimerOrphans = [t \in Tasks |-> 0]
  /\ inj = [t \in Tasks |-> <<>>]
  /\ nTerm = [t \in Tasks |-> 0]
  /\ nChat = [t \in Tasks |-> 0]
  /\ ret = FALSE
  /\ error = [t \in Tasks |-> "none"]
  /\ taskFields = [t \in Tasks |-> NoTask]
  /\ lastCall = NoCall
  /\ pending = {}
  /\ added = {}
  /\ respondCalls = [a \in Approvals |-> 0]
  /\ deciding = [a \in Approvals |-> 0]
  /\ decideRet = [a \in Approvals |-> {}]
  /\ config = [kind |-> "unloaded", e2bKey |-> FALSE]
  /\ permReq = [a \in Approvals |-> NoRequest]
  /\ autoNotes = [a \in Approvals |-> <<>>]
  /\ approvalNeeded = [a \in Approvals |-> 0]
  /\ connections = {}
  /\ destroyed = {}
  /\ closePending = {}
  /\ written = [c \in Conns |-> <<>>]
  /\ nSent = 0
  /\ addedAt = [c \in Conns |-> -1]
  /\ sandboxes = {}
  /\ sbTimerLive = [t \in Tasks |-> FALSE]
  /\ disposeCalls = [t \in Tasks |-> 0]
  /\ dsPending = [t \in Tasks |-> 0]
  /\ resultText = [t \in Tasks |-> <<>>]
  /\ resultStatus = [t \in Tasks |-> "none"]
  /\ locked = FALSE
  /\ waiters = <<>>
  /\ lpc = [p \in Procs |-> "idle"]
  /\ injQueue = <<>>
  /\ processing = FALSE
  /\ injItem = 0
  /\ nEnq = 0
  /\ sse = <<>>
  /\ injFailed = {}

\* ------------------------------------------------------------- start / drain

\* BgTaskRunner.start(templateId, prompt, description, opts); n bounds the number of
\* calls explored
start(prompt, opts, n) ==
  /\ NextId <= n
  /\ LET t == NextId
         prio == [priority EXCEPT ![t] = orElse(opts.priority, "normal")]
         st == [status EXCEPT ![t] = "queued"]
         q == sortByPriority(Append(pendingQueue, t), prio)
         d == drainQueue(st, q, maxConcurrent)
     IN /\ priority' = prio
        /\ taskFields' = [taskFields EXCEPT ![t] =
                            [prompt |-> prompt,
                             skills |-> orElse(opts.skills, <<>>),
                             retryCount |-> orElse(opts.retryCount, 0),
                             redoHistory |-> orElse(opts.redoHistory, <<>>),
                             maxToolCalls |-> orElse(opts.limits, MaxToolCalls)]]
        /\ status' = d.status
        /\ pendingQueue' = d.pendingQueue
        /\ pc' = dispatchPc(pc, st, d.status)
  /\ UNCHANGED <<lockVars, approvalVars, serverVars, sbVars, maxConcurrent, agents, agentAlive, pendingMessages, interruptPending,
                 idleTimers, toolCalls, steps, sandboxUrl, chats, agentTimerLive,
                 agentTimerOrphans, inj, nTerm, nChat, error>>

\* bg_task_run: start() with the priority, limits and skills of the call
Run(p, limits, skills, n) ==
  /\ start(<<"task">>, [NoOpts EXCEPT !.priority = Some(p), !.limits = limits, !.skills = skills], n)
  /\ UNCHANGED <<ret, lastCall>>

\* start() called with a priority and no other option
Start(p, n) == Run(p, Undefined, Undefined, n)

\* ------------------------------------------------------------- retry / redo

\* a retry that passes the original's retryCount on
retryOptsSameCount(t) ==
  [priority |-> Some(priority[t]), limits |-> Some(taskFields[t].maxToolCalls),
   skills |-> Some(taskFields[t].skills), retryCount |-> Some(taskFields[t].retryCount),
   redoHistory |-> Some(taskFields[t].redoHistory)]

\* the opts bg_task_retry passes to start()
retryOpts(t) ==
  [priority |-> Some(priority[t]), limits |-> Some(taskFields[t].maxToolCalls),
   skills |-> Some(taskFields[t].skills), retryCount |-> Some(taskFields[t].retryCount + 1),
   redoHistory |-> Some(taskFields[t].redoHistory)]

\* bg_task_retry.execute; modifiedPrompt is optional
Retry(t, modifiedPrompt, n) ==
  IF status[t] \notin {"failed", "cancelled"}
  THEN \* unknown id or another status: { ok: false }
       /\ lastCall' = [tool |-> "retry", taskId |-> t, arg |-> modifiedPrompt, ok |-> FALSE,
                       newTaskId |-> 0]
       /\ UNCHANGED <<lockVars, approvalVars, serverVars, sbVars, runnerCore, taskFields, ret>>
  ELSE /\ start(orElse(modifiedPrompt, taskFields[t].prompt), retryOpts(t), n)
       /\ lastCall' = [tool |-> "retry", taskId |-> t, arg |-> modifiedPrompt, ok |-> TRUE,
                       newTaskId |-> NextId]
       /\ UNCHANGED ret

\* a redo that passes the original's redoHistory on
redoOptsSameHistory(t, feedback) ==
  [priority |-> Some(priority[t]), limits |-> Some(taskFields[t].maxToolCalls),
   skills |-> Some(taskFields[t].skills), retryCount |-> Some(taskFields[t].retryCount),
   redoHistory |-> Some(taskFields[t].redoHistory)]

\* the opts bg_task_redo passes to start(): newRedoHistory = [...task.redoHistory, feedback]
redoOpts(t, feedback) ==
  [priority |-> Some(priority[t]), limits |-> Some(taskFields[t].maxToolCalls),
   skills |-> Some(taskFields[t].skills), retryCount |-> Some(taskFields[t].retryCount),
   redoHistory |-> Some(Append(taskFields[t].redoHistory, feedback))]

\* the prompt bg_task_redo builds: the original prompt, the feedback, the previous result
redoPrompt(t, feedback) == taskFields[t].prompt \o <<feedback, "previousResult">>

\* bg_task_redo.execute
Redo(t, feedback, n) ==
  IF status[t] # "completed"
  THEN /\ lastCall' = [tool |-> "redo", taskId |-> t, arg |-> Some(<<feedback>>), ok |-> FALSE,
                       newTaskId |-> 0]
       /\ UNCHANGED <<lockVars, approvalVars, serverVars, sbVars, runnerCore, taskFields, ret>>
  ELSE /\ start(redoPrompt(t, feedback), redoOpts(t, feedback), n)
       /\ lastCall' = [tool |-> "redo", taskId |-> t, arg |-> Some(<<feedback>>), ok |-> TRUE,
                       newTaskId |-> NextId]
       /\ UNCHANGED ret

\* ------------------------------------------------------------- first run

\* runWithSandbox, end of the finally block: onUpdate, enqueue the injection, drainQueue
Announce(t, st) ==
  LET d == drainQueue(st, pendingQueue, maxConcurrent) IN
  /\ inj' = [inj EXCEPT ![t] = Append(@, injectionType(st[t]))]
  /\ status' = d.status
  /\ pendingQueue' = d.pendingQueue
  /\ pc' = [dispatchPc(pc, st, d.status) EXCEPT ![t] = "done"]

\* runWithSandbox, the finally block up to the sandbox lifecycle branch.
\* st: the status map on entry; created: subAgent is defined
RunFinally(t, st, created) ==
  LET keep == st[t] = "completed" /\ created IN
  /\ idleTimers' = idleTimers \ {t}
  /\ agentAlive' = [agentAlive EXCEPT ![t] = keep]
  /\ agents' = IF keep THEN agents ELSE agents \ {t}
  /\ agentTimerLive' = IF keep THEN [agentTimerLive EXCEPT ![t] = TRUE] ELSE agentTimerLive
  /\ pendingMessages' = pendingMessages \ {t}
  /\ IF sandboxUrl'[t]
     THEN \* keep the sandbox for the preview: sandboxes.set, arm the dispose timer
          /\ sandboxes' = sandboxes \cup {t}
          /\ sbTimerLive' = [sbTimerLive EXCEPT ![t] = TRUE]
          /\ UNCHANGED disposeCalls
          /\ Announce(t, st)
     ELSE \* await sandbox.dispose(): the call is made, the finally block suspends
          /\ disposeCalls' = [disposeCalls EXCEPT ![t] = @ + 1]
          /\ UNCHANGED <<sandboxes, sbTimerLive>>
          /\ status' = st
          /\ pc' = [pc EXCEPT ![t] = "dispose"]
          /\ UNCHANGED <<pendingQueue, inj>>
  /\ UNCHANGED dsPending

\* runInBackground: sandboxFactory.create() resolved; runWithSandbox runs to Agent.create
SandboxCreated(t) ==
  /\ pc[t] = "sandbox"
  /\ pc' = [pc EXCEPT ![t] = "agent"]
  /\ UNCHANGED <<lockVars, approvalVars, serverVars, toolVars, error, sbVars, maxConcurrent, status, priority, pendingQueue, agents, agentAlive,
                 pendingMessages, interruptPending, idleTimers, toolCalls, steps,
                 sandboxUrl, chats, agentTimerLive, agentTimerOrphans, inj, nTerm,
                 nChat, ret>>

\* runInBackground: sandboxFactory.create() rejected; nothing catches it
SandboxFailed(t) ==
  /\ pc[t] = "sandbox"
  /\ pc' = [pc EXCEPT ![t] = "crashed"]
  /\ UNCHANGED <<lockVars, approvalVars, serverVars, toolVars, error, sbVars, maxConcurrent, status, priority, pendingQueue, agents, agentAlive,
                 pendingMessages, interruptPending, idleTimers, toolCalls, steps,
                 sandboxUrl, chats, agentTimerLive, agentTimerOrphans, inj, nTerm,
                 nChat, ret>>

\* runWithSandbox: Agent.create resolved; register agent and monitors, arm the idle
\* timer, call complete(promptWithContext)
AgentCreated(t) ==
  /\ pc[t] = "agent"
  /\ agents' = agents \cup {t}
  /\ idleTimers' = idleTimers \cup {t}
  /\ pc' = [pc EXCEPT ![t] = "complete"]
  /\ UNCHANGED <<lockVars, approvalVars, serverVars, toolVars, error, sbVars, maxConcurrent, status, priority, pendingQueue, agentAlive,
                 pendingMessages, interruptPending, toolCalls, steps, sandboxUrl,
                 chats, agentTimerLive, agentTimerOrphans, inj, nTerm, nChat, ret>>

\* runWithSandbox: Agent.create rejected; catch and finally with subAgent undefined
AgentCreateFailed(t) ==
  /\ pc[t] = "agent"
  /\ LET fails == catchFails(status[t])
         st == IF fails THEN [status EXCEPT ![t] = "failed"] ELSE status
     IN /\ nTerm' = [nTerm EXCEPT ![t] = IF fails THEN @ + 1 ELSE @]
        /\ error' = IF fails THEN [error EXCEPT ![t] = "thrown"] ELSE error
        /\ sandboxUrl' = sandboxUrl
        /\ resultText' = resultText
        /\ resultStatus' = resultStatus
        /\ RunFinally(t, st, FALSE)
  /\ UNCHANGED <<lockVars, approvalVars, serverVars, toolVars, maxConcurrent, priority, interruptPending, toolCalls, steps, chats,
                 agentTimerOrphans, nChat, ret>>

\* runWithSandbox: the pause-loop left (break), lines 237-252, then the finally block.
\* text: result.text of the last complete() call
LoopExit(t, text) ==
  LET completes == status[t] \notin {"cancelled", "failed"}
      st == IF completes THEN [status EXCEPT ![t] = "completed"] ELSE status
  IN /\ nTerm' = [nTerm EXCEPT ![t] = IF completes THEN @ + 1 ELSE @]
     /\ sandboxUrl' = [sandboxUrl EXCEPT ![t] = completes /\ setsSandboxUrl(text)]
     /\ resultText' = IF completes THEN [resultText EXCEPT ![t] = text] ELSE resultText
     /\ RunFinally(t, st, TRUE)

\* complete() resolved with status ok
CompleteOk(t, text) ==
  /\ pc[t] = "complete"
  /\ interruptPending' = [interruptPending EXCEPT ![t] = FALSE]
  /\ resultStatus' = [resultStatus EXCEPT ![t] = "ok"]
  /\ LoopExit(t, text)
  /\ UNCHANGED <<lockVars, approvalVars, serverVars, toolVars, error, maxConcurrent, priority, toolCalls, steps, chats, agentTimerOrphans,
                 nChat, ret>>

\* complete() resolved with status paused, which follows an interrupt() request
CompletePaused(t, text) ==
  /\ pc[t] = "complete"
  /\ interruptPending[t]
  /\ interruptPending' = [interruptPending EXCEPT ![t] = FALSE]
  /\ resultStatus' = [resultStatus EXCEPT ![t] = "paused"]
  /\ IF status[t] \notin {"cancelled", "failed"} /\ t \in pendingMessages
     THEN \* refuel: currentInput := pendingMessages[t], delete it, complete() again
          /\ pendingMessages' = pendingMessages \ {t}
          /\ UNCHANGED <<sandboxes, sbTimerLive, disposeCalls, dsPending, resultText, status, pendingQueue, pc, agents, agentAlive, idleTimers,
                         sandboxUrl, agentTimerLive, inj, nTerm>>
     ELSE LoopExit(t, text)
  /\ UNCHANGED <<lockVars, approvalVars, serverVars, toolVars, error, maxConcurrent, priority, toolCalls, steps, chats, agentTimerOrphans,
                 nChat, ret>>

\* complete() resolved with status paused and the runner had requested no interrupt:
\* the agent paused on its own; the same pause-loop lines 226-235
CompletePausedByAgent(t, text) ==
  /\ pc[t] = "complete"
  /\ ~interruptPending[t]
  /\ resultStatus' = [resultStatus EXCEPT ![t] = "paused"]
  /\ IF status[t] \notin {"cancelled", "failed"} /\ t \in pendingMessages
     THEN /\ pendingMessages' = pendingMessages \ {t}
          /\ UNCHANGED <<sandboxes, sbTimerLive, disposeCalls, dsPending, resultText, status,
                         pendingQueue, pc, agents, agentAlive, idleTimers, sandboxUrl,
                         agentTimerLive, inj, nTerm>>
     ELSE LoopExit(t, text)
  /\ UNCHANGED <<lockVars, approvalVars, serverVars, toolVars, error, maxConcurrent, priority,
                 interruptPending, toolCalls, steps, chats, agentTimerOrphans, nChat, ret>>

\* complete() rejected: the catch block, then the finally block
CompleteThrows(t) ==
  /\ pc[t] = "complete"
  /\ LET fails == catchFails(status[t])
         st == IF fails THEN [status EXCEPT ![t] = "failed"] ELSE status
     IN /\ nTerm' = [nTerm EXCEPT ![t] = IF fails THEN @ + 1 ELSE @]
        /\ error' = IF fails THEN [error EXCEPT ![t] = "thrown"] ELSE error
        /\ sandboxUrl' = sandboxUrl
        /\ resultText' = resultText
        /\ resultStatus' = resultStatus
        /\ RunFinally(t, st, TRUE)
  /\ interruptPending' = [interruptPending EXCEPT ![t] = FALSE]
  /\ UNCHANGED <<lockVars, approvalVars, serverVars, toolVars, maxConcurrent, priority, toolCalls, steps, chats, agentTimerOrphans,
                 nChat, ret>>

\* runWithSandbox: sandbox.dispose() settled (a rejection is caught and logged)
SandboxDisposed(t) ==
  /\ pc[t] = "dispose"
  /\ Announce(t, status)
  /\ UNCHANGED <<lockVars, approvalVars, serverVars, toolVars, error, sbVars, maxConcurrent, priority, agents, agentAlive, pendingMessages,
                 interruptPending, idleTimers, toolCalls, steps, sandboxUrl, chats,
                 agentTimerLive, agentTimerOrphans, nTerm, nChat, ret>>

\* ------------------------------------------------------------- watchdogs

\* handleIdleTimeout / handleResourceLimit: mark a running task failed and interrupt
\* its registered agent; a no-op on a task that is not running
markFailed(t) ==
  IF status[t] = "running"
  THEN /\ status' = [status EXCEPT ![t] = "failed"]
       /\ nTerm' = [nTerm EXCEPT ![t] = @ + 1]
       /\ error' = [error EXCEPT ![t] = "watchdog"]
       /\ interruptPending' = IF t \in agents
                              THEN [interruptPending EXCEPT ![t] = TRUE]
                              ELSE interruptPending
  ELSE UNCHANGED <<status, nTerm, interruptPending, error>>

\* the idle timer of resetIdleTimer fires: handleIdleTimeout
IdleTimeout(t) ==
  /\ t \in idleTimers
  /\ idleTimers' = idleTimers \ {t}
  /\ markFailed(t)
  /\ UNCHANGED <<lockVars, approvalVars, serverVars, toolVars, sbVars, maxConcurrent, priority, pendingQueue, pc, agents, agentAlive,
                 pendingMessages, toolCalls, steps, sandboxUrl, chats, agentTimerLive,
                 agentTimerOrphans, inj, nChat, ret>>

\* the tool_executed monitor of the first run (subscribed while complete() is awaited)
ToolExecuted(t) ==
  /\ pc[t] = "complete"
  /\ totalEvents < MaxEvents
  /\ toolCalls' = [toolCalls EXCEPT ![t] = @ + 1]
  /\ idleTimers' = idleTimers \cup {t}
  /\ IF MaxToolCalls # 0 /\ toolCalls'[t] >= MaxToolCalls
     THEN markFailed(t)
     ELSE UNCHANGED <<status, nTerm, interruptPending, error>>
  /\ UNCHANGED <<lockVars, approvalVars, serverVars, toolVars, sbVars, maxConcurrent, priority, pendingQueue, pc, agents, agentAlive,
                 pendingMessages, steps, sandboxUrl, chats, agentTimerLive,
                 agentTimerOrphans, inj, nChat, ret>>

\* the step_complete monitor of the first run
StepComplete(t) ==
  /\ pc[t] = "complete"
  /\ totalEvents < MaxEvents
  /\ steps' = [steps EXCEPT ![t] = @ + 1]
  /\ idleTimers' = idleTimers \cup {t}
  /\ IF MaxSteps # 0 /\ steps'[t] >= MaxSteps
     THEN markFailed(t)
     ELSE UNCHANGED <<status, nTerm, interruptPending, error>>
  /\ UNCHANGED <<lockVars, approvalVars, serverVars, toolVars, sbVars, maxConcurrent, priority, pendingQueue, pc, agents, agentAlive,
                 pendingMessages, toolCalls, sandboxUrl, chats, agentTimerLive,
                 agentTimerOrphans, inj, nChat, ret>>

\* the token_usage monitor of the first run: only resets the idle timer
\* (totalTokens is not modelled); it changes the state when the timer had fired
TokenUsage(t) ==
  /\ pc[t] = "complete"
  /\ t \notin idleTimers
  /\ idleTimers' = idleTimers \cup {t}
  /\ UNCHANGED <<lockVars, approvalVars, serverVars, toolVars, error, sbVars, maxConcurrent, status, priority, pendingQueue, pc, agents, agentAlive,
                 pendingMessages, interruptPending, toolCalls, steps, sandboxUrl, chats,
                 agentTimerLive, agentTimerOrphans, inj, nTerm, nChat, ret>>

\* ------------------------------------------------------------- cancel / sendMessage

\* a filter that keeps the queue as it is
removeFromQueueKeepsAll(q, t) == q

\* BgTaskRunner.cancel: pendingQueue.filter(q => q.task.id !== taskId)
removeFromQueue(q, t) == SelectSeq(q, LAMBDA u : u # t)

\* BgTaskRunner.cancel
Cancel(t) ==
  /\ IF status[t] = "none"
     THEN /\ ret' = FALSE
          /\ UNCHANGED <<status, pendingQueue, inj, nTerm, interruptPending>>
     ELSE IF status[t] = "queued"
     THEN /\ pendingQueue' = removeFromQueue(pendingQueue, t)
          /\ status' = [status EXCEPT ![t] = "cancelled"]
          /\ nTerm' = [nTerm EXCEPT ![t] = @ + 1]
          /\ inj' = [inj EXCEPT ![t] = Append(@, "task_cancelled")]
          /\ ret' = TRUE
          /\ UNCHANGED interruptPending
     ELSE IF status[t] # "running"
     THEN /\ ret' = FALSE
          /\ UNCHANGED <<status, pendingQueue, inj, nTerm, interruptPending>>
     ELSE /\ status' = [status EXCEPT ![t] = "cancelled"]
          /\ nTerm' = [nTerm EXCEPT ![t] = @ + 1]
          /\ interruptPending' = IF t \in agents
                                 THEN [interruptPending EXCEPT ![t] = TRUE]
                                 ELSE interruptPending
          /\ ret' = TRUE
          /\ UNCHANGED <<pendingQueue, inj>>
  /\ UNCHANGED <<lockVars, approvalVars, serverVars, toolVars, error, sbVars, maxConcurrent, priority, pc, agents, agentAlive, pendingMessages,
                 idleTimers, toolCalls, steps, sandboxUrl, chats, agentTimerLive,
                 agentTimerOrphans, nChat>>

\* BgTaskRunner.sendMessage
SendMessage(t) ==
  /\ IF t \in agents /\ status[t] = "running"
     THEN /\ pendingMessages' = pendingMessages \cup {t}
          /\ interruptPending' = [interruptPending EXCEPT ![t] = TRUE]
          /\ ret' = TRUE
     ELSE /\ ret' = FALSE
          /\ UNCHANGED <<pendingMessages, interruptPending>>
  /\ UNCHANGED <<lockVars, approvalVars, serverVars, toolVars, error, sbVars, maxConcurrent, status, priority, pendingQueue, pc, agents, agentAlive,
                 idleTimers, toolCalls, steps, sandboxUrl, chats, agentTimerLive,
                 agentTimerOrphans, inj, nTerm, nChat>>

\* ------------------------------------------------------------- chat re-entry

\* BgTaskRunner.chatAsync, and runChatInBackground up to `await agent.complete(message)`
ChatAsyncWithin(t, budget) ==
  /\ IF status[t] = "none" \/ ~agentAlive[t]
     THEN /\ ret' = FALSE
          /\ UNCHANGED <<status, agentAlive, chats, agentTimerLive, nChat>>
     ELSE IF t \notin agents
     THEN /\ agentAlive' = [agentAlive EXCEPT ![t] = FALSE]
          /\ ret' = FALSE
          /\ UNCHANGED <<status, chats, agentTimerLive, nChat>>
     ELSE /\ totalChats < budget
          /\ chats' = [chats EXCEPT ![t][status[t]] = @ + 1]
          /\ status' = [status EXCEPT ![t] = "running"]
          /\ agentTimerLive' = [agentTimerLive EXCEPT ![t] = FALSE]
          /\ nChat' = [nChat EXCEPT ![t] = @ + 1]
          /\ ret' = TRUE
          /\ UNCHANGED agentAlive
  /\ UNCHANGED <<lockVars, approvalVars, serverVars, toolVars, error, sbVars, maxConcurrent, priority, pendingQueue, pc, agents, pendingMessages,
                 interruptPending, idleTimers, toolCalls, steps, sandboxUrl,
                 agentTimerOrphans, inj, nTerm>>

\* chatAsync with MaxChats chat re-entries explored
ChatAsync(t) == ChatAsyncWithin(t, MaxChats)

\* runChatInBackground: agent.complete(message) resolved (ok, or paused after an
\* interrupt, which the code does not tell apart); prev is the call's previousStatus
ChatCompleted(t, prev) ==
  /\ chats[t][prev] > 0
  /\ interruptPending' = [interruptPending EXCEPT ![t] = FALSE]
  /\ chats' = [chats EXCEPT ![t][prev] = @ - 1]
  /\ status' = [status EXCEPT ![t] = "completed"]
  /\ agentTimerOrphans' = [agentTimerOrphans EXCEPT ![t] = IF agentTimerLive[t] THEN @ + 1 ELSE @]
  /\ agentTimerLive' = [agentTimerLive EXCEPT ![t] = TRUE]
  /\ inj' = [inj EXCEPT ![t] = Append(@, "chat_result")]
  /\ UNCHANGED <<lockVars, approvalVars, serverVars, toolVars, error, sbVars, maxConcurrent, priority, pendingQueue, pc, agents, agentAlive,
                 pendingMessages, idleTimers, toolCalls, steps, sandboxUrl, nTerm,
                 nChat, ret>>

\* runChatInBackground: agent.complete(message) rejected: the catch block
ChatThrows(t, prev) ==
  /\ chats[t][prev] > 0
  /\ chats' = [chats EXCEPT ![t][prev] = @ - 1]
  /\ status' = [status EXCEPT ![t] = prev]
  /\ inj' = [inj EXCEPT ![t] = Append(@, "chat_failed")]
  /\ error' = [error EXCEPT ![t] = "thrown"]
  /\ interruptPending' = [interruptPending EXCEPT ![t] = FALSE]
  /\ UNCHANGED <<lockVars, approvalVars, serverVars, toolVars, sbVars, maxConcurrent, priority, pendingQueue, pc, agents, agentAlive,
                 pendingMessages, idleTimers, toolCalls, steps, sandboxUrl,
                 agentTimerLive, agentTimerOrphans, nTerm, nChat, ret>>

\* the tool_executed listener of a chat re-entry: it counts the call and does nothing
\* else (lastActivityTime is not modelled)
ChatToolExecuted(t) ==
  /\ chatsInFlight(t) > 0
  /\ totalEvents < MaxEvents
  /\ toolCalls' = [toolCalls EXCEPT ![t] = @ + 1]
  /\ UNCHANGED <<lockVars, approvalVars, serverVars, toolVars, error, sbVars, maxConcurrent, status, priority, pendingQueue, pc, agents, agentAlive,
                 pendingMessages, interruptPending, idleTimers, steps, sandboxUrl, chats,
                 agentTimerLive, agentTimerOrphans, inj, nTerm, nChat, ret>>

\* BgTaskRunner.disposeAgent
disposeAgent(t) ==
  IF t \notin agents
  THEN UNCHANGED <<agents, agentAlive>> /\ agentTimerLive' = agentTimerLive
  ELSE /\ agents' = agents \ {t}
       /\ agentTimerLive' = [agentTimerLive EXCEPT ![t] = FALSE]
       /\ agentAlive' = [agentAlive EXCEPT ![t] = FALSE]

\* the agent keep-alive timer held in agentDisposeTimers fires
AgentTimerFires(t) ==
  /\ agentTimerLive[t]
  /\ IF t \notin agents
     THEN /\ agentTimerLive' = [agentTimerLive EXCEPT ![t] = FALSE]
          /\ UNCHANGED <<agents, agentAlive>>
     ELSE disposeAgent(t)
  /\ UNCHANGED <<lockVars, approvalVars, serverVars, toolVars, error, sbVars, maxConcurrent, status, priority, pendingQueue, pc, pendingMessages,
                 interruptPending, idleTimers, toolCalls, steps, sandboxUrl, chats,
                 agentTimerOrphans, inj, nTerm, nChat, ret>>

\* an agent keep-alive timer that a later chat replaced in the map fires (there is one
\* only once two chat re-entries of a task overlap)
OrphanTimerFires(t) ==
  /\ agentTimerOrphans[t] > 0
  /\ agentTimerOrphans' = [agentTimerOrphans EXCEPT ![t] = @ - 1]
  /\ disposeAgent(t)
  /\ UNCHANGED <<lockVars, approvalVars, serverVars, toolVars, error, sbVars, maxConcurrent, status, priority, pendingQueue, pc, pendingMessages,
                 interruptPending, idleTimers, toolCalls, steps, sandboxUrl, chats,
                 inj, nTerm, nChat, ret>>

\* ------------------------------------------------------------- sandbox keep-alive

\* a disposeSandbox that drops the sandbox it finds without calling dispose() on it
disposeSandboxNoCall(t) ==
  IF t \notin sandboxes
  THEN /\ ret' = FALSE
       /\ UNCHANGED <<disposeCalls, dsPending>>
  ELSE /\ dsPending[t] < MaxDisposeOverlap
       /\ dsPending' = [dsPending EXCEPT ![t] = @ + 1]
       /\ UNCHANGED <<disposeCalls, ret>>

\* BgTaskRunner.disposeSandbox up to `await sandbox.dispose()`: false when no sandbox is
\* held for the task, else the dispose() call is made and the function suspends
disposeSandbox(t) ==
  IF t \notin sandboxes
  THEN /\ ret' = FALSE
       /\ UNCHANGED <<disposeCalls, dsPending>>
  ELSE /\ dsPending[t] < MaxDisposeOverlap
       /\ disposeCalls' = [disposeCalls EXCEPT ![t] = @ + 1]
       /\ dsPending' = [dsPending EXCEPT ![t] = @ + 1]
       /\ UNCHANGED ret

\* handleDisposeSandbox (the route) calls disposeSandbox
DisposeSandboxCall(t) ==
  /\ status[t] # "none"
  /\ disposeSandbox(t)
  /\ UNCHANGED <<lockVars, approvalVars, serverVars, toolVars, error, sandboxes, sbTimerLive, resultText, resultStatus, maxConcurrent, status, priority,
                 pendingQueue, pc, agents, agentAlive, pendingMessages, interruptPending,
                 idleTimers, toolCalls, steps, sandboxUrl, chats, agentTimerLive,
                 agentTimerOrphans, inj, nTerm, nChat>>

\* the sandbox keep-alive timer fires and calls disposeSandbox
SandboxTimerFires(t) ==
  /\ sbTimerLive[t]
  /\ sbTimerLive' = [sbTimerLive EXCEPT ![t] = FALSE]
  /\ disposeSandbox(t)
  /\ UNCHANGED <<lockVars, approvalVars, serverVars, toolVars, error, sandboxes, resultText, resultStatus, maxConcurrent, status, priority,
                 pendingQueue, pc, agents, agentAlive, pendingMessages, interruptPending,
                 idleTimers, toolCalls, steps, sandboxUrl, chats, agentTimerLive,
                 agentTimerOrphans, inj, nTerm, nChat>>

\* disposeSandbox after its await (a rejection is ignored): sandboxes.delete, clear the
\* timer, sandboxAlive = false, return true
DisposeSandboxDone(t) ==
  /\ dsPending[t] > 0
  /\ dsPending' = [dsPending EXCEPT ![t] = @ - 1]
  /\ sandboxes' = sandboxes \ {t}
  /\ sbTimerLive' = [sbTimerLive EXCEPT ![t] = FALSE]
  /\ ret' = TRUE
  /\ UNCHANGED <<lockVars, approvalVars, serverVars, toolVars, error, disposeCalls, resultText, resultStatus, maxConcurrent, status, priority,
                 pendingQueue, pc, agents, agentAlive, pendingMessages, interruptPending,
                 idleTimers, toolCalls, steps, sandboxUrl, chats, agentTimerLive,
                 agentTimerOrphans, inj, nTerm, nChat>>

\* ------------------------------------------------------------- ApprovalManager

\* ApprovalManager.add, called once per permission id by the permission listener
add(a) ==
  /\ a \notin added
  /\ added' = added \cup {a}
  /\ pending' = pending \cup {a}
  /\ UNCHANGED <<respondCalls, deciding, decideRet, lockVars, runnerCore, ret, sbVars, toolVars, serverVars>>

\* ApprovalManager.decide up to `await approval.respond(...)`: false when no entry is
\* held under the id, else the callback is called and the function suspends
decide(a) ==
  /\ IF a \notin pending
     THEN /\ decideRet' = [decideRet EXCEPT ![a] = @ \cup {FALSE}]
          /\ UNCHANGED <<respondCalls, deciding>>
     ELSE /\ respondCalls[a] < MaxRespondCalls
          /\ respondCalls' = [respondCalls EXCEPT ![a] = @ + 1]
          /\ deciding' = [deciding EXCEPT ![a] = @ + 1]
          /\ UNCHANGED decideRet
  /\ UNCHANGED <<pending, added, lockVars, runnerCore, ret, sbVars, toolVars, serverVars>>

\* ApprovalManager.decide after its await: respond() resolved; pending.delete, return true
Responded(a) ==
  /\ deciding[a] > 0
  /\ deciding' = [deciding EXCEPT ![a] = @ - 1]
  /\ pending' = pending \ {a}
  /\ decideRet' = [decideRet EXCEPT ![a] = @ \cup {TRUE}]
  /\ UNCHANGED <<added, respondCalls, lockVars, runnerCore, ret, sbVars, toolVars, serverVars>>

\* ApprovalManager.decide after its await: respond() rejected; decide() rejects with the
\* entry left in the map
RespondThrows(a) ==
  /\ deciding[a] > 0
  /\ deciding' = [deciding EXCEPT ![a] = @ - 1]
  /\ UNCHANGED <<pending, added, respondCalls, decideRet, lockVars, runnerCore, ret, sbVars, toolVars, serverVars>>

\* ------------------------------------------------------------- permission bridge

\* loadConfig, the sandbox part: SANDBOX_KIND (default 'local', taken as it is) and
\* E2B_API_KEY; a key turns kind 'local' into 'e2b'
loadConfig(envKind, envKey) ==
  /\ config.kind = "unloaded"
  /\ config' = [kind |-> IF envKey /\ envKind = "local" THEN "e2b" ELSE envKind,
                e2bKey |-> envKey]
  /\ UNCHANGED <<permReq, autoNotes, approvalNeeded, approvalVars, lockVars, runnerCore, ret,
                 sbVars, toolVars, connVars>>

\* AppSandboxFactory.create: the kind of sandbox a task runs in
create(cfg) == IF cfg.kind = "e2b" /\ cfg.e2bKey THEN "e2b" ELSE "local"

\* a policy that looks at the command's prefix only
isSafeCommandByPrefix(c) == c.extracted /\ c.prefix

\* isSafeCommand: a command was extracted, no dangerous pattern matches, a safe prefix
\* starts it
isSafeCommand(c) ==
  IF ~c.extracted THEN FALSE
  ELSE IF c.dangerous THEN FALSE
  ELSE c.prefix

\* the onPermission callback main() passes to BgTaskRunner, for the permission_required
\* event of call a: it runs to its end without an await
onPermission(a, call) ==
  /\ config.kind # "unloaded"
  /\ permReq[a] = NoRequest
  /\ permReq' = [permReq EXCEPT ![a] = call]
  /\ IF config.kind = "e2b"
     THEN /\ autoNotes' = [autoNotes EXCEPT ![a] = Append(@, "auto-approved: e2b sandbox")]
          /\ UNCHANGED <<pending, added, approvalNeeded>>
     ELSE IF call.name = "bash_run" /\ isSafeCommand(call.inputPreview)
     THEN /\ autoNotes' = [autoNotes EXCEPT ![a] = Append(@, "auto-approved: safe command")]
          /\ UNCHANGED <<pending, added, approvalNeeded>>
     ELSE \* approvalManager.add, sseManager.send approval_needed
          /\ pending' = pending \cup {a}
          /\ added' = added \cup {a}
          /\ approvalNeeded' = [approvalNeeded EXCEPT ![a] = @ + 1]
          /\ UNCHANGED autoNotes
  /\ UNCHANGED <<config, respondCalls, deciding, decideRet, lockVars, runnerCore, ret, sbVars,
                 toolVars, connVars>>

\* ------------------------------------------------------------- SSEManager

\* SSEManager.addConnection for the response of a new /events request: register it and
\* listen for its 'close' event
addConnection(c) ==
  /\ addedAt[c] = -1
  /\ connections' = connections \cup {c}
  /\ addedAt' = [addedAt EXCEPT ![c] = nSent]
  /\ UNCHANGED <<destroyed, closePending, written, nSent, bridgeVars, approvalVars, lockVars,
                 runnerCore, ret, sbVars, toolVars>>

\* the client went away: the response is destroyed and its 'close' event is emitted, to
\* be handled in a later turn of the event loop
ConnDestroyed(c) ==
  /\ c \in connections /\ c \notin destroyed
  /\ destroyed' = destroyed \cup {c}
  /\ closePending' = closePending \cup {c}
  /\ UNCHANGED <<connections, written, nSent, addedAt, bridgeVars, approvalVars, lockVars,
                 runnerCore, ret, sbVars, toolVars>>

\* the 'close' listener of addConnection: connections.delete(res)
ConnClose(c) ==
  /\ c \in closePending
  /\ closePending' = closePending \ {c}
  /\ connections' = connections \ {c}
  /\ UNCHANGED <<destroyed, written, nSent, addedAt, bridgeVars, approvalVars, lockVars,
                 runnerCore, ret, sbVars, toolVars>>

\* a send that writes to every registered connection
writesToRegistered(c, conns, dead) == c \in conns

\* SSEManager.send, the test of the loop body: conn is in the set and !conn.destroyed
writesTo(c, conns, dead) == c \in conns /\ c \notin dead

\* SSEManager.send: one conn.write per registered connection that is not destroyed
send ==
  /\ nSent < MaxSends
  /\ nSent' = nSent + 1
  /\ written' = [c \in Conns |-> IF writesTo(c, connections, destroyed)
                                  THEN Append(written[c], nSent + 1)
                                  ELSE written[c]]
  /\ UNCHANGED <<connections, destroyed, closePending, addedAt, bridgeVars, approvalVars,
                 lockVars, runnerCore, ret, sbVars, toolVars>>

\* ------------------------------------------------------------- ChatLock

\* ChatLock.acquire, the loop condition `while (this.locked)` on first entry
lockBusy(l) == l

\* a woken waiter that takes the lock without looking at it again
noRecheckAfterWake(l) == FALSE

\* ChatLock.acquire, the loop condition evaluated again by a waiter that was woken
recheckAfterWake(l) == l

\* ChatLock.acquire by caller p up to its first await, on lock state (l, w):
\* park when the lock is held, take it otherwise
acquire(p, l, w, pcs) ==
  IF lockBusy(l)
  THEN [locked |-> l, waiters |-> Append(w, p), lpc |-> [pcs EXCEPT ![p] = "parked"]]
  ELSE [locked |-> TRUE, waiters |-> w, lpc |-> [pcs EXCEPT ![p] = "holding"]]

\* ChatLock.release on waiter list w: unlock, shift the head waiter and resolve it
release(w, pcs) ==
  IF Len(w) > 0
  THEN [locked |-> FALSE, waiters |-> Tail(w), lpc |-> [pcs EXCEPT ![Head(w)] = "woken"]]
  ELSE [locked |-> FALSE, waiters |-> w, lpc |-> pcs]

\* a woken waiter continues in acquire(): the loop condition again, then park or take
Resume(p) ==
  /\ lpc[p] = "woken"
  /\ IF recheckAfterWake(locked)
     THEN /\ waiters' = Append(waiters, p)
          /\ lpc' = [lpc EXCEPT ![p] = "parked"]
          /\ UNCHANGED locked
     ELSE /\ locked' = TRUE
          /\ lpc' = [lpc EXCEPT ![p] = "holding"]
          /\ UNCHANGED waiters
  /\ UNCHANGED <<injQueue, processing, injItem, nEnq, sse, injFailed, runnerVars>>

\* handleChat: a chat request reaches `await ctx.chatLock.acquire()`
UserAcquire(u) ==
  /\ lpc[u] = "idle"
  /\ LET a == acquire(u, locked, waiters, lpc)
     IN /\ locked' = a.locked
        /\ waiters' = a.waiters
        /\ lpc' = a.lpc
  /\ UNCHANGED <<injQueue, processing, injItem, nEnq, sse, injFailed, runnerVars>>

\* handleChat: the chatStream loop ended or threw; the finally block releases
UserRelease(u) ==
  /\ lpc[u] = "holding"
  /\ LET r == release(waiters, [lpc EXCEPT ![u] = "done"])
     IN /\ locked' = r.locked
        /\ waiters' = r.waiters
        /\ lpc' = r.lpc
  /\ UNCHANGED <<injQueue, processing, injItem, nEnq, sse, injFailed, runnerVars>>

\* a processor that takes the newest item of the queue instead of the oldest
takeNewest(q, l, w, pcs) ==
  LET a == acquire(Injector, l, w, pcs)
  IN [injQueue |-> SubSeq(q, 1, Len(q) - 1), injItem |-> q[Len(q)], processing |-> TRUE,
      locked |-> a.locked, waiters |-> a.waiters, lpc |-> a.lpc]

\* InjectionQueue.processNext, one turn of the while loop up to its first await that
\* suspends: shift the head item and call acquire()
takeNext(q, l, w, pcs) ==
  LET a == acquire(Injector, l, w, pcs)
  IN [injQueue |-> Tail(q), injItem |-> Head(q), processing |-> TRUE,
      locked |-> a.locked, waiters |-> a.waiters, lpc |-> a.lpc]

\* InjectionQueue.enqueue: push, then processNext, which returns at once when a
\* processor is running
Enqueue ==
  /\ nEnq < MaxItems
  /\ nEnq' = nEnq + 1
  /\ LET q == Append(injQueue, nEnq + 1)
     IN IF processing
        THEN /\ injQueue' = q
             /\ UNCHANGED <<locked, waiters, lpc, processing, injItem>>
        ELSE LET n == takeNext(q, locked, waiters, lpc)
             IN /\ injQueue' = n.injQueue
                /\ injItem' = n.injItem
                /\ processing' = n.processing
                /\ locked' = n.locked
                /\ waiters' = n.waiters
                /\ lpc' = n.lpc
  /\ UNCHANGED <<sse, injFailed, runnerVars>>

\* a processor that stops after the item it has injected
loopStops(q) == FALSE

\* InjectionQueue.processNext, the condition of the while loop
loopGoesOn(q) == Len(q) > 0

\* InjectionQueue.processNext after injectAndStream(item): the finally block releases,
\* and the loop goes on with the next item or ends
finishInjection ==
  /\ lpc[Injector] = "holding"
  /\ LET r == release(waiters, [lpc EXCEPT ![Injector] = "idle"])
     IN IF loopGoesOn(injQueue)
        THEN LET n == takeNext(injQueue, r.locked, r.waiters, r.lpc)
             IN /\ injQueue' = n.injQueue
                /\ injItem' = n.injItem
                /\ processing' = n.processing
                /\ locked' = n.locked
                /\ waiters' = n.waiters
                /\ lpc' = n.lpc
        ELSE /\ processing' = FALSE
             /\ injItem' = 0
             /\ locked' = r.locked
             /\ waiters' = r.waiters
             /\ lpc' = r.lpc
             /\ UNCHANGED injQueue
  /\ UNCHANGED <<nEnq, sse, runnerVars>>

\* InjectionQueue.processNext: injectAndStream(item) ended, or threw and the catch block
\* logged it (the two are not told apart)
InjectionDone ==
  /\ finishInjection
  /\ UNCHANGED injFailed

\* the SSE events sent for item i
sentFor(i) == SelectSeq(sse, LAMBDA e : e.item = i)

\* the chatStream of item i has yielded its done event, the last of a stream
streamDone(i) == \E k \in DOMAIN sse : sse[k].item = i /\ sse[k].type = "orchestrator_done"

\* InjectionQueue.processNext: the for-await loop of injectAndStream(item) ended after
\* the done event of the stream
InjectionEnds ==
  /\ streamDone(injItem)
  /\ finishInjection
  /\ UNCHANGED injFailed

\* InjectionQueue.processNext: chatStream threw inside injectAndStream(item), after
\* orchestrator_start was sent; the catch block logs
InjectionThrows ==
  /\ sentFor(injItem) # <<>>
  /\ ~streamDone(injItem)
  /\ injFailed' = injFailed \cup {injItem}
  /\ finishInjection

\* the SSE events injectAndStream sends for the events of chatStream (text_chunk,
\* tool:start, tool:end, done)
StreamTypes == {"orchestrator_text", "tool_start", "tool_end", "orchestrator_done"}

\* InjectionQueue.injectAndStream: one sseManager.send for the item being streamed:
\* orchestrator_start first, then one per chatStream event up to the done event; it runs
\* with the lock held
StreamEvent ==
  /\ lpc[Injector] = "holding"
  /\ Len(sentFor(injItem)) < MaxStream
  /\ ~streamDone(injItem)
  /\ \E type \in (IF sentFor(injItem) = <<>> THEN {"orchestrator_start"} ELSE StreamTypes) :
       sse' = Append(sse, [item |-> injItem, type |-> type])
  /\ UNCHANGED <<locked, waiters, lpc, injQueue, processing, injItem, nEnq, injFailed, runnerVars>>

\* InjectionQueue.enqueue as in Enqueue, for a stream of injections that does not end:
\* the calls are not counted and the items are not told apart (item id 1); at most
\* MaxBacklog items wait in the queue
EnqueueBacklog ==
  /\ Len(injQueue) < MaxBacklog
  /\ LET q == Append(injQueue, 1)
     IN IF processing
        THEN /\ injQueue' = q
             /\ UNCHANGED <<locked, waiters, lpc, processing, injItem>>
        ELSE LET n == takeNext(q, locked, waiters, lpc)
             IN /\ injQueue' = n.injQueue
                /\ injItem' = n.injItem
                /\ processing' = n.processing
                /\ locked' = n.locked
                /\ waiters' = n.waiters
                /\ lpc' = n.lpc
  /\ UNCHANGED <<nEnq, sse, injFailed, runnerVars>>

\* ------------------------------------------------------------- specifications

\* the runner with chat re-entries, watchdogs and failures, on MaxTasks tasks
Next ==
  \/ \E p \in Priorities : Start(p, MaxTasks)
  \/ \E t \in Tasks : SandboxCreated(t)
  \/ \E t \in Tasks : SandboxFailed(t)
  \/ \E t \in Tasks : AgentCreated(t)
  \/ \E t \in Tasks : AgentCreateFailed(t)
  \/ \E t \in Tasks, text \in PlainTexts : CompleteOk(t, text)
  \/ \E t \in Tasks, text \in PlainTexts : CompletePaused(t, text)
  \/ \E t \in Tasks : CompleteThrows(t)
  \/ \E t \in Tasks : SandboxDisposed(t)
  \/ \E t \in Tasks : IdleTimeout(t)
  \/ \E t \in Tasks : ToolExecuted(t)
  \/ \E t \in Tasks : StepComplete(t)
  \/ \E t \in Tasks : TokenUsage(t)
  \/ \E t \in Tasks : Cancel(t)
  \/ \E t \in Tasks : SendMessage(t)
  \/ \E t \in Tasks : ChatAsync(t)
  \/ \E t \in Tasks, prev \in ChatPrev : ChatCompleted(t, prev)
  \/ \E t \in Tasks, prev \in ChatPrev : ChatThrows(t, prev)
  \/ \E t \in Tasks : ChatToolExecuted(t)
  \/ \E t \in Tasks : AgentTimerFires(t)

Spec == Init /\ [][Next]_vars

\* the scheduler alone on MaxQueueTasks tasks of every priority: start, dispatch,
\* runs that end normally, cancel
NextQueue ==
  \/ \E p \in Priorities : Start(p, MaxQueueTasks)
  \/ \E t \in Tasks : SandboxCreated(t)
  \/ \E t \in Tasks : AgentCreated(t)
  \/ \E t \in Tasks : CompleteOk(t, <<>>)
  \/ \E t \in Tasks : CompletePaused(t, <<>>)
  \/ \E t \in Tasks : SandboxDisposed(t)
  \/ \E t \in Tasks : Cancel(t)

SpecQueue == Init /\ [][NextQueue]_vars

\* one task and its chat re-entries, which may overlap, with the agent keep-alive
\* timers, cancel and a failing first run
NextChat ==
  \/ \E p \in Priorities : Start(p, MaxChatTasks)
  \/ \E t \in Tasks : SandboxCreated(t)
  \/ \E t \in Tasks : AgentCreated(t)
  \/ \E t \in Tasks, text \in PlainTexts : CompleteOk(t, text)
  \/ \E t \in Tasks, text \in PlainTexts : CompletePaused(t, text)
  \/ \E t \in Tasks : CompleteThrows(t)
  \/ \E t \in Tasks : SandboxDisposed(t)
  \/ \E t \in Tasks : Cancel(t)
  \/ \E t \in Tasks : ChatAsyncWithin(t, MaxOverlap)
  \/ \E t \in Tasks, prev \in ChatPrev : ChatCompleted(t, prev)
  \/ \E t \in Tasks, prev \in ChatPrev : ChatThrows(t, prev)
  \/ \E t \in Tasks : AgentTimerFires(t)
  \/ \E t \in Tasks : OrphanTimerFires(t)

SpecChat == Init /\ [][NextChat]_vars

\* tasks whose runs end normally, with or without a preview URL, and the disposal of
\* their sandboxes by the end of the run, the keep-alive timer and the dispose route
NextSandbox ==
  \/ \E p \in Priorities : Start(p, MaxTasks)
  \/ \E t \in Tasks : SandboxCreated(t)
  \/ \E t \in Tasks : AgentCreated(t)
  \/ \E t \in Tasks, text \in Texts : CompleteOk(t, text)
  \/ \E t \in Tasks : CompleteThrows(t)
  \/ \E t \in Tasks : Cancel(t)
  \/ \E t \in Tasks : SandboxDisposed(t)
  \/ \E t \in Tasks : DisposeSandboxCall(t)
  \/ \E t \in Tasks : SandboxTimerFires(t)
  \/ \E t \in Tasks : DisposeSandboxDone(t)

SpecSandbox == Init /\ [][NextSandbox]_vars

\* the sandboxes of SpecSandbox where every promise settles (sandboxFactory.create,
\* Agent.create, complete(), sandbox.dispose()) and every armed keep-alive timer fires
SpecSandboxLive ==
  /\ Init /\ [][NextSandbox]_vars
  /\ \A t \in Tasks :
       /\ WF_vars(SandboxCreated(t))
       /\ WF_vars(AgentCreated(t))
       /\ WF_vars((\E text \in Texts : CompleteOk(t, text)) \/ CompleteThrows(t))
       /\ WF_vars(SandboxDisposed(t))
       /\ WF_vars(SandboxTimerFires(t))
       /\ WF_vars(DisposeSandboxDone(t))

\* bg_task_run calls: priority, limits and skills given, or all three left out
RunOpts == {[priority |-> "high", limits |-> Some(MaxToolCalls + 1), skills |-> Some(<<"skill">>)],
            [priority |-> "low", limits |-> Some(MaxToolCalls + 1), skills |-> Undefined],
            [priority |-> "normal", limits |-> Undefined, skills |-> Undefined]}
PromptOpts == {Undefined, Some(<<"modified">>)}
Feedbacks == {"feedback1", "feedback2"}

\* tasks that end completed, failed or cancelled, retried and redone by the tools
NextRetry ==
  \/ \E o \in RunOpts : Run(o.priority, o.limits, o.skills, MaxRunCalls)
  \/ \E t \in Tasks : SandboxCreated(t)
  \/ \E t \in Tasks : AgentCreated(t)
  \/ \E t \in Tasks : CompleteOk(t, <<>>)
  \/ \E t \in Tasks : CompleteThrows(t)
  \/ \E t \in Tasks : SandboxDisposed(t)
  \/ \E t \in Tasks : Cancel(t)
  \/ \E t \in Tasks, mp \in PromptOpts : Retry(t, mp, MaxRetryTasks)
  \/ \E t \in Tasks, fb \in Feedbacks : Redo(t, fb, MaxRetryTasks)

SpecRetry == Init /\ [][NextRetry]_vars

\* the approvals and the decide() calls of the approval route and the chat commands
NextApproval ==
  \/ \E a \in Approvals : add(a)
  \/ \E a \in Approvals : decide(a)
  \/ \E a \in Approvals : Responded(a)
  \/ \E a \in Approvals : RespondThrows(a)

SpecApproval == Init /\ [][NextApproval]_vars

\* the permission requests of sub-agents under every sandbox configuration, and the
\* decisions on those left to a human
NextBridge ==
  \/ \E k \in SandboxKinds, key \in BOOLEAN : loadConfig(k, key)
  \/ \E a \in Approvals, n \in ToolNames, c \in Commands :
       onPermission(a, [name |-> n, inputPreview |-> c])
  \/ \E a \in Approvals : decide(a)
  \/ \E a \in Approvals : Responded(a)

SpecBridge == Init /\ [][NextBridge]_vars

\* first runs whose complete() calls return ok or paused, after an interrupt that
\* cancel, a watchdog or sendMessage requested or with none requested
NextPause ==
  \/ \E p \in Priorities : Start(p, MaxTasks)
  \/ \E t \in Tasks : SandboxCreated(t)
  \/ \E t \in Tasks : AgentCreated(t)
  \/ \E t \in Tasks : CompleteOk(t, <<>>)
  \/ \E t \in Tasks : CompletePaused(t, <<>>)
  \/ \E t \in Tasks : CompletePausedByAgent(t, <<>>)
  \/ \E t \in Tasks : SandboxDisposed(t)
  \/ \E t \in Tasks : IdleTimeout(t)
  \/ \E t \in Tasks : Cancel(t)
  \/ \E t \in Tasks : SendMessage(t)

SpecPause == Init /\ [][NextPause]_vars

\* SSE connections that open and close while events are sent
NextSse ==
  \/ \E c \in Conns : addConnection(c)
  \/ \E c \in Conns : ConnDestroyed(c)
  \/ \E c \in Conns : ConnClose(c)
  \/ send

SpecSse == Init /\ [][NextSse]_vars

\* the ChatLock shared by MaxUsers chat requests and the injection processor
NextLock ==
  \/ \E u \in Users : UserAcquire(u)
  \/ \E u \in Users : UserRelease(u)
  \/ \E p \in Procs : Resume(p)
  \/ Enqueue
  \/ StreamEvent
  \/ InjectionDone

SpecLock == Init /\ [][NextLock]_vars

\* the injection processor with streams that end with their done event or throw, and
\* the chat requests it shares the ChatLock with
NextInject ==
  \/ \E u \in Users : UserAcquire(u)
  \/ \E u \in Users : UserRelease(u)
  \/ \E p \in Procs : Resume(p)
  \/ Enqueue
  \/ StreamEvent
  \/ InjectionEnds
  \/ InjectionThrows

SpecInject == Init /\ [][NextInject]_vars

\* the injection processor as in SpecInject where every continuation that is ready runs,
\* every user turn ends and every chatStream goes on until it ends or throws
SpecInjectLive ==
  /\ Init /\ [][NextInject]_vars
  /\ \A p \in Procs : WF_vars(Resume(p))
  /\ \A u \in Users : WF_vars(UserRelease(u))
  /\ WF_vars(StreamEvent)
  /\ WF_vars(InjectionEnds \/ InjectionThrows)

\* the continuation of a waiter that release() resolved is a microtask: it has run
\* before the next request or the next enqueue call is handled
microtasksDrained == \A p \in Procs : lpc[p] # "woken"

\* the ChatLock under a stream of injections that does not end. A new request or enqueue
\* call is handled once the woken waiters have run; every continuation that is ready
\* runs (the event loop), and every holder releases: a user turn ends and an
\* injection's stream ends
NextLockLive ==
  \/ \E u \in Users : microtasksDrained /\ UserAcquire(u)
  \/ \E u \in Users : UserRelease(u)
  \/ \E p \in Procs : Resume(p)
  \/ microtasksDrained /\ EnqueueBacklog
  \/ InjectionDone

SpecLockLive ==
  /\ Init /\ [][NextLockLive]_vars
  /\ \A p \in Procs : WF_vars(Resume(p))
  /\ \A u \in Users : WF_vars(UserRelease(u))
  /\ WF_vars(InjectionDone)

\* ------------------------------------------------------------- properties

\* every first run has ended (normally, or by a rejected sandboxFactory.create()) and no
\* chat re-entry is in flight: no promise of the runner is pending
Quiescent == \A t \in Tasks : pc[t] \in {"idle", "done", "crashed"} /\ chatsInFlight(t) = 0

\* every first run that was dispatched reached the end of runWithSandbox and every chat
\* re-entry finished
AllFinished == \A t \in Tasks : pc[t] \in {"idle", "done"} /\ chatsInFlight(t) = 0

taskInjections(t) == SelectSeq(inj[t], LAMBDA x : x \in {"task_result", "task_failed", "task_cancelled"})
chatInjections(t) == SelectSeq(inj[t], LAMBDA x : x \in {"chat_result", "chat_failed"})

\* C1: at every reachable state the number of tasks with status running is at most
\* maxConcurrent.
C1_RunningBounded == runningCount <= maxConcurrent

\* C2: each terminal transition of a task enqueues exactly one task_* injection and
\* each chat re-entry exactly one chat_* injection: never more injections than
\* transitions, and as many once the task's run has reached its end and its chats
\* are over.
C2_OneInjectionPerTransition ==
  \A t \in Tasks :
    /\ Len(taskInjections(t)) <= nTerm[t]
    /\ Len(chatInjections(t)) <= nChat[t]
    /\ (pc[t] \in {"idle", "done"} /\ chatsInFlight(t) = 0)
         => /\ Len(taskInjections(t)) = nTerm[t]
            /\ Len(chatInjections(t)) = nChat[t]

\* C3: a failed or cancelled task never changes status again, and a completed task
\* leaves completed only for running (a chat re-entry).
C3_TerminalIsFinal ==
  [][\A t \in Tasks :
       /\ status[t] \in {"failed", "cancelled"} => status'[t] = status[t]
       /\ status[t] = "completed" => status'[t] \in {"completed", "running"}]_vars

\* C4: every task created by start() reaches a terminal status: once nothing of the
\* runner is pending any more, no created task is still queued or running.
C4_EveryTaskTerminates ==
  Quiescent => \A t \in Tasks : status[t] \in Terminal \cup {"none"}

\* t is dispatched before u: higher priority, or equal priority and an earlier start()
dispatchedBefore(t, u, prio) ==
  \/ PRIORITY_ORDER[prio[t]] < PRIORITY_ORDER[prio[u]]
  \/ PRIORITY_ORDER[prio[t]] = PRIORITY_ORDER[prio[u]] /\ t < u

\* C5: tasks leave the pending queue in strict priority order, FIFO within a priority:
\* whenever a task is dispatched, every task left queued has a lower priority, or the
\* same priority and a later start() call.
C5_PriorityOrder ==
  [][\A t, u \in Tasks :
       (status[t] \in {"none", "queued"} /\ status'[t] = "running" /\ status'[u] = "queued")
         => dispatchedBefore(t, u, priority')]_vars

\* C5 witness: maxConcurrent = 1, T1 normal, T2 low, T3 high; T1 has completed, T3 runs
\* and T2 still waits.
C5_Witness ==
  /\ MaxQueueTasks >= 3
  /\ maxConcurrent = 1
  /\ priority[1] = "normal" /\ priority[2] = "low" /\ priority[3] = "high"
  /\ status[1] = "completed" /\ pc[1] = "done"
  /\ status[3] = "running"
  /\ status[2] = "queued"

\* C6: a task started at full capacity stays queued, and each time a task that has
\* left running reaches the end of its first run, or a chat re-entry on a task whose
\* first run has ended finishes and leaves the task not running, while tasks are
\* queued, exactly one of them, the head of the pending queue, is started.
C6_FinishStartsOne ==
  [][/\ \A t \in Tasks :
          (status[t] = "none" /\ status'[t] # "none" /\ runningCount = maxConcurrent)
            => status'[t] = "queued"
     /\ \A t \in Tasks :
          (/\ \/ pc[t] # "done" /\ pc'[t] = "done" /\ status[t] # "running"
              \/ /\ chatsInFlight(t) > chatsInFlight(t)'
                 /\ pc[t] = "done" /\ status'[t] # "running"
           /\ Len(pendingQueue) > 0)
            => /\ pendingQueue' = Tail(pendingQueue)
               /\ status'[Head(pendingQueue)] = "running"]_vars

\* C7: once every run and every chat re-entry has finished, no task is left waiting in
\* the pending queue while fewer than maxConcurrent tasks are running.
C7_QueuePromoted ==
  AllFinished => ~(runningCount < maxConcurrent /\ Len(pendingQueue) > 0)

\* u occurs in queue q
inQueue(u, q) == \E i \in 1..Len(q) : q[i] = u

\* C8: cancel on a queued task returns true, removes it from the pending queue, sets
\* it cancelled and enqueues one task_cancelled injection; afterwards the task stays
\* cancelled, is never dispatched and gets no further injection.
C8_CancelQueued ==
  [][\A t \in Tasks :
       /\ (status[t] = "queued" /\ status'[t] = "cancelled")
            => /\ ret'
               /\ ~inQueue(t, pendingQueue')
               /\ pc'[t] = "idle"
               /\ inj'[t] = <<"task_cancelled">>
       /\ (status[t] = "cancelled" /\ pc[t] = "idle")
            => /\ status'[t] = "cancelled"
               /\ pc'[t] = "idle"
               /\ ~inQueue(t, pendingQueue')
               /\ inj'[t] = <<"task_cancelled">>]_vars

\* C8 witness: a task was cancelled while queued, and a task started before it has
\* since finished and drained the queue.
C8_Witness ==
  \E t, u \in Tasks :
    /\ u < t
    /\ status[t] = "cancelled" /\ pc[t] = "idle" /\ inj[t] = <<"task_cancelled">>
    /\ pc[u] = "done"
    /\ runningCount < maxConcurrent

\* C9: cancel on a running task requests the sub-agent to interrupt at whatever point of
\* the run it arrives: a cancelled task never has a complete() call in flight for
\* which no interrupt was requested.
C9_CancelInterrupts ==
  \A t \in Tasks :
    (status[t] = "cancelled" /\ pc[t] = "complete") => interruptPending[t]

\* C10: at most one streaming turn holds the ChatLock: a user turn and an injection
\* never hold it together, and whoever streams holds the lock.
C10_MutualExclusion ==
  /\ Cardinality({p \in Procs : lpc[p] = "holding"}) <= 1
  /\ (\E p \in Procs : lpc[p] = "holding") => locked

\* C10 witness: a user turn holds the lock that it got after parking behind a
\* streaming injection, while the next injection is parked behind it.
C10_Witness ==
  \E u \in Users :
    /\ lpc[u] = "holding"
    /\ lpc[Injector] = "parked"
    /\ injItem = 2

\* C11: the ChatLock is handed to the head waiter: the step whose release() wakes a
\* parked waiter leaves no other caller holding the lock, so no acquire() invoked after
\* that release() gets the lock before the waiter.
C11_FifoHandoff ==
  [][\A p, q \in Procs :
       (lpc[p] = "parked" /\ lpc'[p] = "woken" /\ q # p) => lpc'[q] # "holding"]_vars

\* C12: every acquire() of the ChatLock eventually returns: a caller that parked is
\* eventually the holder.
C12_StarvationFree ==
  \A p \in Procs : (lpc[p] = "parked") ~> (lpc[p] = "holding")

\* C13: injections are streamed one at a time in enqueue order: the item ids of the SSE
\* events sent never decrease, so no event of an injection precedes an event of an
\* injection enqueued before it.
C13_InjectionsInOrder ==
  \A i, j \in 1..Len(sse) : i < j => sse[i].item <= sse[j].item

\* C13 witness: three injections were streamed with MaxStream events each while user
\* turns took the lock in between.
C13_Witness ==
  /\ Len(sse) = MaxItems * MaxStream
  /\ \E u \in Users : lpc[u] = "done"

\* C14: a queued or running task has made at most maxToolCalls tool calls, and the
\* tool_executed event that brings a running task's count to maxToolCalls marks the
\* task failed and interrupts its registered sub-agent.
C14_ToolCallCap ==
  [][\A t \in Tasks :
       /\ status'[t] \in {"queued", "running"} => toolCalls'[t] <= MaxToolCalls
       /\ (status[t] = "running" /\ toolCalls[t] < MaxToolCalls /\ toolCalls'[t] = MaxToolCalls)
            => /\ status'[t] = "failed"
               /\ t \in agents => interruptPending'[t]]_vars

\* C15: a running task whose sub-agent has a complete() call in flight (first run or
\* chat re-entry) has its idle timer armed; the timer firing on a running task marks it
\* failed and interrupts its registered sub-agent; and a failed task stays failed, so
\* the idle-timeout failure takes effect at most once.
C15_IdleWatchdog ==
  [][\A t \in Tasks :
       /\ (status'[t] = "running" /\ (pc'[t] = "complete" \/ chatsInFlight(t)' > 0))
            => t \in idleTimers'
       /\ (t \in idleTimers /\ t \notin idleTimers' /\ pc'[t] = pc[t] /\ status[t] = "running")
            => /\ status'[t] = "failed"
               /\ t \in agents => interruptPending'[t]
       /\ status[t] = "failed" => status'[t] = "failed"]_vars

\* C16: an instruction that sendMessage accepted is consumed by a later complete() call:
\* once the task's pause-loop is over and no chat re-entry is in flight, no accepted
\* instruction is still stashed; and sendMessage on a task that is not running stashes
\* nothing.
C16_MessageConsumed ==
  [][\A t \in Tasks :
       /\ (pc'[t] \in {"dispose", "done"} /\ chatsInFlight(t)' = 0) => t \notin pendingMessages'
       /\ (status[t] # "running" /\ t \notin pendingMessages) => t \notin pendingMessages']_vars

\* C17: a task with agentAlive = true has its sub-agent registered under its id, and a
\* task that has ended failed or cancelled (run over, no chat in flight) has
\* agentAlive = false and no registered agent.
C17_AliveMeansRegistered ==
  \A t \in Tasks :
    /\ agentAlive[t] => t \in agents
    /\ (status[t] \in {"failed", "cancelled"} /\ pc[t] \in {"idle", "done"} /\ chatsInFlight(t) = 0)
         => (~agentAlive[t] /\ t \notin agents)

\* C18: the step that ends a successful chat re-entry (a chat_result injection is
\* enqueued) leaves the agent alive and registered with the keep-alive timer armed, and
\* no earlier agent-dispose timer of the task is left that can still fire.
C18_ChatExtendsKeepAlive ==
  [][\A t \in Tasks :
       inj'[t] = Append(inj[t], "chat_result")
         => /\ agentAlive'[t] /\ t \in agents'
            /\ agentTimerLive'[t]
            /\ agentTimerOrphans'[t] = 0]_vars

\* C19: at most one chat re-entry is in flight against a task.
C19_OneChatPerTask ==
  \A t \in Tasks : chatsInFlight(t) <= 1

\* C20: dispose() is called at most once on a task's sandbox.
C20_DisposeOnce ==
  \A t \in Tasks : disposeCalls[t] <= 1

\* C21: a task's sandbox is kept (registered in sandboxes, sandboxUrl set, dispose timer
\* armed) only if the task completed and its result text carries a marker whose URL is
\* not a localhost URL; a run that ends without keeping the sandbox has called dispose()
\* on it by the step that announces the end (final update and injection).
hasRemoteMarker(text) == \E i \in DOMAIN text : text[i] = "remote"

C21_KeepOnlyWithPreview ==
  [][\A t \in Tasks :
       /\ (t \notin sandboxes /\ t \in sandboxes')
            => /\ status'[t] = "completed"
               /\ hasRemoteMarker(resultText'[t])
               /\ sandboxUrl'[t] /\ sbTimerLive'[t]
       /\ (pc[t] # "done" /\ pc'[t] = "done" /\ t \notin sandboxes')
            => disposeCalls'[t] >= 1]_vars

C21_Witness ==
  \E t, u \in Tasks :
    /\ t \in sandboxes /\ pc[t] = "done" /\ status[t] = "completed"
    /\ u \notin sandboxes /\ pc[u] = "done" /\ status[u] = "completed"
    /\ resultText[u] = <<"localhost", "remote">> /\ Len(inj[u]) = 1

\* C22: while a completed task's sub-agent is kept alive for chat, and while a chat
\* re-entry on it is in flight, no dispose() call has been made on the task's sandbox.
C22_SandboxOutlivesAgent ==
  \A t \in Tasks :
    (agentAlive[t] \/ chatsInFlight(t) > 0) => disposeCalls[t] = 0

\* C23: when complete() throws on a task that is neither failed nor cancelled, the task
\* becomes failed with error set from the exception, its agent is unregistered with
\* agentAlive false and dispose() is called on its sandbox; the run then ends with a
\* task_failed injection, the task's only one, and a drained queue. When the task is
\* already cancelled or failed, the end of complete() changes neither status nor error.
C23_ThrowFailsTask ==
  [][\A t \in Tasks :
       /\ (pc[t] = "complete" /\ pc'[t] # "complete" /\ status[t] = "running"
             /\ status'[t] = "failed")
            => /\ error'[t] = "thrown"
               /\ ~agentAlive'[t] /\ t \notin agents'
               /\ disposeCalls'[t] = disposeCalls[t] + 1
               /\ pc'[t] = "dispose"
       /\ (pc[t] = "dispose" /\ pc'[t] = "done" /\ status[t] = "failed" /\ error[t] = "thrown")
            => /\ status'[t] = "failed"
               /\ inj'[t] = <<"task_failed">>
               /\ (pendingQueue' = <<>> \/ runningCountOf(status') >= maxConcurrent)
       /\ (pc[t] = "complete" /\ pc'[t] # "complete" /\ status[t] \in {"cancelled", "failed"})
            => (status'[t] = status[t] /\ error'[t] = error[t])]_vars

\* a run whose complete() threw has been announced by its task_failed injection, and a
\* run cancelled while it was running has ended cancelled
C23_Witness ==
  \E t, u \in Tasks :
    /\ status[t] = "failed" /\ error[t] = "thrown" /\ pc[t] = "done"
    /\ inj[t] = <<"task_failed">>
    /\ status[u] = "cancelled" /\ pc[u] = "done" /\ inj[u] = <<"task_cancelled">>
    /\ disposeCalls[u] = 1

\* C24: no failure of a task wedges the scheduler: a running task always has something
\* executing it (its run awaiting the sandbox, the agent or complete(), or a chat
\* re-entry), and a run that stopped on a failure left its task failed with the error
\* recorded and a task_failed injection enqueued.
C24_NoWedgedTask ==
  \A t \in Tasks :
    /\ status[t] = "running" => (pc[t] \in {"sandbox", "agent", "complete"} \/ chatsInFlight(t) > 0)
    /\ pc[t] = "crashed" => (status[t] = "failed" /\ error[t] = "thrown" /\ inj[t] = <<"task_failed">>)

\* C25: the injection enqueued when a run ends describes the status the task has then:
\* task_result iff completed, task_cancelled iff cancelled, task_failed iff failed.
C25_InjectionMatchesStatus ==
  [][\A t \in Tasks :
       (pc[t] # "done" /\ pc'[t] = "done")
         => LET type == inj'[t][Len(inj'[t])] IN
            /\ Len(inj'[t]) = Len(inj[t]) + 1
            /\ type = "task_result" <=> status'[t] = "completed"
            /\ type = "task_cancelled" <=> status'[t] = "cancelled"
            /\ type = "task_failed" <=> status'[t] = "failed"]_vars

\* the tasks a step creates
createdBy == {u \in Tasks : status[u] = "none" /\ status'[u] # "none"}

\* C26: bg_task_retry succeeds only on a failed or cancelled task; it then creates exactly
\* one task, with retryCount one more than the original's and the original's priority,
\* limits, skills and (unless modifiedPrompt is given) prompt, and leaves the original
\* unchanged; on any other status or an unknown id it creates no task and changes nothing.
C26_RetryContract ==
  [][(lastCall' # lastCall /\ lastCall'.tool = "retry")
       => LET t == lastCall'.taskId
              new == lastCall'.newTaskId
          IN IF status[t] \in {"failed", "cancelled"}
             THEN /\ lastCall'.ok
                  /\ createdBy = {new}
                  /\ taskFields'[new].retryCount = taskFields[t].retryCount + 1
                  /\ priority'[new] = priority[t]
                  /\ taskFields'[new].maxToolCalls = taskFields[t].maxToolCalls
                  /\ taskFields'[new].skills = taskFields[t].skills
                  /\ taskFields'[new].prompt =
                       (IF lastCall'.arg = Undefined THEN taskFields[t].prompt
                        ELSE CHOOSE m \in lastCall'.arg : TRUE)
                  /\ taskFields'[t] = taskFields[t] /\ status'[t] = status[t]
                  /\ priority'[t] = priority[t] /\ error'[t] = error[t]
             ELSE /\ ~lastCall'.ok
                  /\ createdBy = {}
                  /\ UNCHANGED <<runnerCore, sbVars, taskFields>>]_vars

\* a retry of a retry, of a task started with its own priority, limit and skills
C26_Witness ==
  /\ lastCall.tool = "retry" /\ lastCall.ok
  /\ taskFields[lastCall.newTaskId].retryCount = 2
  /\ taskFields[lastCall.newTaskId].skills = <<"skill">>
  /\ taskFields[lastCall.newTaskId].maxToolCalls = MaxToolCalls + 1
  /\ priority[lastCall.newTaskId] = "high"

\* C27: bg_task_redo succeeds only on a completed task; it then creates exactly one task
\* whose redoHistory is the original's followed by the feedback, with the original's
\* retryCount, priority, limits and skills, and leaves the original (its redoHistory
\* included) unchanged; on any other status it creates no task.
C27_RedoContract ==
  [][(lastCall' # lastCall /\ lastCall'.tool = "redo")
       => LET t == lastCall'.taskId
              new == lastCall'.newTaskId
          IN IF status[t] = "completed"
             THEN /\ lastCall'.ok
                  /\ createdBy = {new}
                  /\ \E fb \in Feedbacks :
                       /\ lastCall'.arg = Some(<<fb>>)
                       /\ taskFields'[new].redoHistory = Append(taskFields[t].redoHistory, fb)
                  /\ taskFields'[new].retryCount = taskFields[t].retryCount
                  /\ priority'[new] = priority[t]
                  /\ taskFields'[new].maxToolCalls = taskFields[t].maxToolCalls
                  /\ taskFields'[new].skills = taskFields[t].skills
                  /\ taskFields'[t] = taskFields[t] /\ status'[t] = status[t]
                  /\ priority'[t] = priority[t]
             ELSE /\ ~lastCall'.ok
                  /\ createdBy = {}
                  /\ UNCHANGED taskFields]_vars

\* a redo of a redone task that was itself a retry
C27_Witness ==
  /\ lastCall.tool = "redo" /\ lastCall.ok
  /\ taskFields[lastCall.newTaskId].redoHistory = <<"feedback1", "feedback2">>
  /\ taskFields[lastCall.taskId].redoHistory = <<"feedback1">>
  /\ priority[lastCall.newTaskId] = "low"

\* C28: the SSE events of an injection begin with orchestrator_start and end with its
\* one orchestrator_done: the first event sent for an item is orchestrator_start, no
\* item has two orchestrator_done events, an item the processor has left has its
\* orchestrator_done, and between two orchestrator_start events lies the
\* orchestrator_done of the first.
C28_StartThenDone ==
  /\ \A k \in DOMAIN sse :
       (\A j \in 1..(k - 1) : sse[j].item # sse[k].item) => sse[k].type = "orchestrator_start"
  /\ \A j, k \in DOMAIN sse :
       (sse[j].type = "orchestrator_done" /\ sse[k].type = "orchestrator_done"
          /\ sse[j].item = sse[k].item) => j = k
  /\ \A i \in 1..nEnq : (sentFor(i) # <<>> /\ injItem # i) => streamDone(i)
  /\ \A i, j \in DOMAIN sse :
       (i < j /\ sse[i].type = "orchestrator_start" /\ sse[j].type = "orchestrator_start")
         => \E k \in (i + 1)..(j - 1) :
              sse[k].type = "orchestrator_done" /\ sse[k].item = sse[i].item

\* C29: a failing injection is only logged: the step in which injectAndStream throws
\* releases the ChatLock (the head waiter is woken, and the lock is free when no item is
\* queued), goes on with the oldest queued item if there is one, and changes no task's
\* status.
C29_FailureOnlyLogged ==
  [][\A i \in 1..MaxItems :
       (i \notin injFailed /\ i \in injFailed')
         => /\ injItem = i /\ injItem' # i
            /\ waiters # <<>> => lpc'[Head(waiters)] = "woken"
            /\ IF injQueue # <<>>
               THEN injItem' = Head(injQueue) /\ injQueue' = Tail(injQueue) /\ processing'
               ELSE ~locked' /\ ~processing'
            /\ status' = status]_vars

\* the first injection failed, the two enqueued after it were streamed to their done
\* events, and a user turn took place
C29_Witness ==
  /\ injFailed = {1}
  /\ streamDone(2) /\ streamDone(3)
  /\ \E u \in Users : lpc[u] = "done"

\* C30: decide() on a pending approval calls its respond callback, removes the entry and
\* returns true, and on any other id returns false and calls nothing; hence the respond
\* callback of an approval is called at most once.
C30_RespondOnce ==
  \A a \in Approvals : respondCalls[a] <= 1

\* the bridge allowed request a by itself, with one respond call carrying an audit note
autoAllowed(a) ==
  /\ Len(autoNotes[a]) = 1
  /\ a \notin added /\ approvalNeeded[a] = 0 /\ respondCalls[a] = 0

\* the bridge left request a to a human: one pending approval, one approval_needed event
leftToHuman(a) ==
  /\ autoNotes[a] = <<>>
  /\ a \in added /\ approvalNeeded[a] = 1

\* C31: every permission request is handled in one step, in exactly one of two ways:
\* allowed by the bridge with an audit note and nothing added to the ApprovalManager
\* (sandbox kind e2b, or bash_run with a command that was extracted, matches no
\* dangerous pattern and starts with a safe prefix), or added as one pending approval
\* with one approval_needed event and no response from the bridge.
C31_AllowOrAsk ==
  \A a \in Approvals :
    permReq[a] # NoRequest =>
      LET call == permReq[a]
          safe == /\ call.name = "bash_run"
                  /\ call.inputPreview.extracted
                  /\ ~call.inputPreview.dangerous
                  /\ call.inputPreview.prefix
      IN /\ autoAllowed(a) # leftToHuman(a)
         /\ autoAllowed(a) <=> (config.kind = "e2b" \/ safe)
         /\ (autoNotes[a] = <<"auto-approved: safe command">>) => safe

\* one request was allowed as a safe command while another waits for a human
C31_Witness ==
  \E a, b \in Approvals :
    /\ autoNotes[a] = <<"auto-approved: safe command">>
    /\ leftToHuman(b) /\ b \in pending
    /\ permReq[b].name = "bash_run" /\ permReq[b].inputPreview.dangerous

\* C32: a request is allowed on sandbox-kind grounds only when the sandbox the task runs
\* in is an e2b sandbox.
C32_AllowOnlyInRemoteSandbox ==
  \A a \in Approvals :
    (\E i \in DOMAIN autoNotes[a] : autoNotes[a][i] = "auto-approved: e2b sandbox")
      => create(config) = "e2b"

\* C33: a task's error field is set if and only if the task's status is failed.
C33_ErrorIffFailed ==
  \A t \in Tasks : (error[t] # "none") <=> (status[t] = "failed")

\* C34: a send writes its event once to every connection that is registered and not
\* closed and to no other; each connection receives events in send order, none twice and
\* none sent before it was registered; a closed connection is not written to again and
\* its close event removes it from the registry.
C34_SendOncePerOpenConnection ==
  /\ [][nSent' = nSent + 1
          => \A c \in Conns :
               written'[c] = IF c \in connections /\ c \notin destroyed
                             THEN Append(written[c], nSent')
                             ELSE written[c]]_vars
  /\ [][\A c \in Conns :
          /\ c \in destroyed => written'[c] = written[c]
          /\ (c \in closePending /\ c \notin closePending') => c \notin connections']_vars
  /\ [](\A c \in Conns :
          /\ \A i, j \in DOMAIN written[c] : i < j => written[c][i] < written[c][j]
          /\ \A i \in DOMAIN written[c] : written[c][i] > addedAt[c])

\* an event was dropped before any connection opened; one connection got the two later
\* events; the other closed after the second event and was removed before the third
C34_Witness ==
  \E c, d \in Conns :
    /\ nSent = 3
    /\ written[c] = <<2, 3>>
    /\ written[d] = <<2>> /\ d \in destroyed /\ d \notin connections

\* the first runs dispatched by the drain that have not reached their finally block
runsInProgress == {t \in Tasks : pc[t] \in {"sandbox", "agent", "complete"}}

\* C35: the number of sub-agent runs in progress (dispatched and not yet at their
\* cleanup) never exceeds maxConcurrent, also when a running task is cancelled or marked
\* failed before its sub-agent has stopped and a start() call arrives in between.
C35_RunsInProgressBounded == Cardinality(runsInProgress) <= maxConcurrent

\* C36: the first run of a task sets the status completed, and keeps the agent alive,
\* only when its last complete() call returned ok: a run whose last complete() call
\* returned paused is not reported as completed.
C36_CompletedOnlyAfterOk ==
  [][\A t \in Tasks :
       (pc[t] = "complete" /\ pc'[t] # "complete" /\ status'[t] = "completed")
         => resultStatus'[t] = "ok"]_vars

\* injectAndStream(i) was called: its first statement sent orchestrator_start for item i
injected(i) == \E k \in DOMAIN sse : sse[k].item = i /\ sse[k].type = "orchestrator_start"

\* C37: every item passed to enqueue is injected exactly once and eventually, while lock
\* holders release and streams end: an item waits in the queue only while a processor
\* run is under way (processing is set and the processor waits for or holds the lock),
\* no item is queued, or started, twice, and every enqueued item is eventually started.
C37_EveryItemInjectedOnce ==
  /\ [](/\ ~processing => injQueue = <<>>
        /\ processing => lpc[Injector] \in {"parked", "woken", "holding"}
        /\ \A i, j \in DOMAIN injQueue : i < j => injQueue[i] < injQueue[j]
        /\ \A i \in 1..MaxItems :
             Cardinality({k \in DOMAIN sse : sse[k].item = i
                                               /\ sse[k].type = "orchestrator_start"}) <= 1)
  /\ \A i \in 1..MaxItems : (nEnq >= i) ~> injected(i)

\* item 3 was enqueued while the processor streams item 2, after the stream of item 1
\* ended and a user turn took place
C37_Witness ==
  /\ injQueue = <<3>> /\ processing /\ injItem = 2
  /\ injected(2) /\ streamDone(1)
  /\ \E u \in Users : lpc[u] = "done"

\* a caller that release() had woken leaves acquire() with the lock
waiterAcquires == \E p \in Procs : lpc[p] = "woken" /\ lpc'[p] = "holding"

\* C38: the ChatLock loses no wake-up and does not deadlock: whenever it is unlocked
\* with waiters parked, a woken waiter is pending; the lock is unlocked only by a step
\* of its holder; and while holders release, a waiter acquires next: as long as
\* waiters are parked again and again, again and again one of them gets the lock.
C38_NoLostWakeup ==
  /\ []((~locked /\ waiters # <<>>) => \E p \in Procs : lpc[p] = "woken")
  /\ [][(locked /\ ~locked') => \E p \in Procs : lpc[p] = "holding" /\ lpc'[p] # "holding"]_vars
  /\ ([]<>(waiters # <<>>) => []<><<waiterAcquires>>_vars)

\* C39: every kept-alive sub-agent is eventually disposed: whenever a task has
\* agentAlive = true and no chat re-entry in flight, a timer that will call disposeAgent
\* for it is armed, also after a chat re-entry that ended in failure.
C39_AliveAgentHasTimer ==
  \A t \in Tasks :
    (agentAlive[t] /\ chatsInFlight(t) = 0) => (agentTimerLive[t] \/ agentTimerOrphans[t] > 0)

\* the sandbox that sandboxFactory.create() returned for the run of t exists and
\* dispose() was not called on it
sandboxLive(t) == pc[t] \in {"agent", "complete", "dispose", "done"} /\ disposeCalls[t] = 0

\* C40: no sandbox leaks: at every time a live task sandbox is in use by a run in
\* progress or is held in the keep-alive map with its dispose timer armed, and, while
\* complete() returns and timers fire, dispose() is eventually called on every sandbox
\* created for a task.
C40_NoSandboxLeak ==
  /\ [](\A t \in Tasks :
          sandboxLive(t) => \/ pc[t] \in {"agent", "complete"}
                            \/ (t \in sandboxes /\ sbTimerLive[t]))
  /\ \A t \in Tasks : (pc[t] = "agent") ~> (disposeCalls[t] > 0)

\* one task's sandbox was kept for its preview and its keep-alive timer has fired and
\* called dispose() on it; another task's sandbox was disposed at the end of its run
C40_Witness ==
  \E t, u \in Tasks :
    /\ sandboxUrl[t] /\ t \in sandboxes /\ ~sbTimerLive[t]
    /\ disposeCalls[t] = 1 /\ dsPending[t] = 1
    /\ ~sandboxUrl[u] /\ pc[u] = "done" /\ disposeCalls[u] = 1

====
